---- MODULE Spec2Model ----
(***************************************************************************)
(* Elevation profile service (server/elevation_profile.py).                *)
(*                                                                         *)
(* Numbers.  A float is modelled as an exact rational <<n, d>> with d > 0  *)
(* in lowest terms; <<0, 0>> is NaN.  World coordinates are metres in the  *)
(* raster CRS (EPSG:25832 for the dgm1 tiles), sample coordinates are      *)
(* numerators over a common denominator.  Floating-point rounding error is *)
(* not modelled.                                                           *)
(***************************************************************************)
EXTENDS Integers, Sequences, FiniteSets, TLC

VARIABLES
    \* ---- get_elevation_profile: arguments
    start_xy, end_xy, input_crs, spacing_m, num_samples, method,
    \* ---- the tile folder /dgm1_tiff_kacheln
    tile_status,
    \* ---- get_elevation_profile: locals and control
    pc, tiffs_to_check, idx, results_array, concat_result, raised, opened,
    \* ---- _sample_raster_at_points called on its own
    s_pc, s_band, s_h, s_w, s_xs, s_ys, s_method, s_vals

profile_vars == <<start_xy, end_xy, input_crs, spacing_m, num_samples, method,
                  tile_status,
                  pc, tiffs_to_check, idx, results_array, concat_result,
                  raised, opened>>

sampler_vars == <<s_pc, s_band, s_h, s_w, s_xs, s_ys, s_method, s_vals>>

vars == <<profile_vars, sampler_vars>>

----------------------------------------------------------------------------
(* Bounds of the model *)

\* largest explicitly supplied num_samples
MaxNumSamples == 2
\* rasters of the stand-alone sampler runs have 1..MaxRasterH rows
MaxRasterH == 2
\* ... and 1..MaxRasterW columns
MaxRasterW == 2
\* the stand-alone sampler is queried on a grid of 1/SubPixel pixels
SubPixel == 2

----------------------------------------------------------------------------
(* Floats *)

NaN == <<0, 0>>

isnan(v) == v[2] = 0

Abs(n) == IF n < 0 THEN -n ELSE n

RECURSIVE GCD(_, _)
GCD(a, b) == IF b = 0 THEN a ELSE GCD(b, a % b)

\* the rational n/d (d # 0) in lowest terms with a positive denominator
Rat(n, d) ==
    LET g == GCD(Abs(n), Abs(d))
        s == IF d < 0 THEN -1 ELSE 1
    IN  <<(s * n) \div g, (s * d) \div g>>

Float(n) == <<n, 1>>

RatAdd(a, b) ==
    IF isnan(a) \/ isnan(b) THEN NaN
    ELSE LET g == GCD(a[2], b[2])
         IN  Rat(a[1] * (b[2] \div g) + b[1] * (a[2] \div g), (a[2] \div g) * b[2])

RatMul(a, b) ==
    IF isnan(a) \/ isnan(b) THEN NaN
    ELSE Rat(a[1] * b[1], a[2] * b[2])

\* np.floor of n/d, d > 0
Floor(n, d) == n \div d

\* np.rint of n/d, d > 0: round half to even
Rint(n, d) ==
    LET f == n \div d
        r == n - f * d
    IN  IF 2 * r < d THEN f
        ELSE IF 2 * r > d THEN f + 1
        ELSE IF f % 2 = 0 THEN f ELSE f + 1

\* Python int() of n/d, d > 0: truncation toward zero
Trunc(n, d) == IF n >= 0 THEN n \div d ELSE -((-n) \div d)

RECURSIVE ISqrtIn(_, _, _)
ISqrtIn(n, lo, hi) ==
    IF lo >= hi THEN lo
    ELSE LET mid == (lo + hi + 1) \div 2
         IN  IF mid * mid <= n THEN ISqrtIn(n, mid, hi) ELSE ISqrtIn(n, lo, mid - 1)

\* floor of the square root
ISqrt(n) == ISqrtIn(n, 0, IF n < 46340 THEN n ELSE 46340)

IsSquare(n) == ISqrt(n) * ISqrt(n) = n

\* np.hypot on integers whose sum of squares is a perfect square
hypot(dx, dy) == ISqrt(dx * dx + dy * dy)

Max(a, b) == IF a >= b THEN a ELSE b

Range(s) == {s[k] : k \in 1..Len(s)}

----------------------------------------------------------------------------
(* _sample_raster_at_points                                                *)
(*                                                                         *)
(* band is a function on (0..h-1) \X (0..w-1) of floats.  transform is a   *)
(* north-up affine [ox, oy, px]: x = ox + px*col, y = oy - px*row.  xs, ys *)
(* are sequences of numerators over the denominator den.                   *)

\* cols = inv.a * xs + inv.b * ys + inv.c, as a numerator over PixDen
ColNum(transform, x, den) == x - transform.ox * den

\* rows = inv.d * xs + inv.e * ys + inv.f, as a numerator over PixDen
RowNum(transform, y, den) == transform.oy * den - y

PixDen(transform, den) == transform.px * den

\* numpy indexing band[i, j]: a negative index counts from the end
BandAt(band, h, w, i, j) ==
    band[<<IF i < 0 THEN i + h ELSE i, IF j < 0 THEN j + w ELSE j>>]

NearestInsideNoLower(i, j, h, w) == (i < h) /\ (j < w)

\* inside = (i >= 0) & (i < h) & (j >= 0) & (j < w)
NearestInside(i, j, h, w) == (i >= 0) /\ (i < h) /\ (j >= 0) /\ (j < w)

SampleNearest(band, h, w, rn, cn, pd) ==
    LET j == Rint(cn, pd)
        i == Rint(rn, pd)
    IN  IF NearestInside(i, j, h, w) THEN BandAt(band, h, w, i, j) ELSE NaN

\* inside = (i0 >= 0) & (i1 < h) & (j0 >= 0) & (j1 < w)
BilinearInside(i0, j0, i1, j1, h, w) ==
    (i0 >= 0) /\ (i1 < h) /\ (j0 >= 0) /\ (j1 < w)

W00Swapped(dj, di, pd) == Rat(dj * di, pd * pd)

\* w00 = (1.0 - djj) * (1.0 - dii), offsets given as numerators over pd
W00(dj, di, pd) == Rat((pd - dj) * (pd - di), pd * pd)
\* w10 = djj * (1.0 - dii)
W10(dj, di, pd) == Rat(dj * (pd - di), pd * pd)
\* w01 = (1.0 - djj) * dii
W01(dj, di, pd) == Rat((pd - dj) * di, pd * pd)
\* w11 = djj * dii
W11(dj, di, pd) == Rat(dj * di, pd * pd)

SampleBilinear(band, h, w, rn, cn, pd) ==
    LET i0 == Floor(rn, pd)
        j0 == Floor(cn, pd)
        i1 == i0 + 1
        j1 == j0 + 1
        di == rn - i0 * pd
        dj == cn - j0 * pd
    IN  IF ~BilinearInside(i0, j0, i1, j1, h, w) THEN NaN
        ELSE LET v00 == BandAt(band, h, w, i0, j0)
                 v10 == BandAt(band, h, w, i0, j1)
                 v01 == BandAt(band, h, w, i1, j0)
                 v11 == BandAt(band, h, w, i1, j1)
                 neighbor_nan == isnan(v00) \/ isnan(v10) \/ isnan(v01) \/ isnan(v11)
             IN  IF neighbor_nan THEN NaN
                 ELSE RatAdd(RatAdd(RatMul(W00(dj, di, pd), v00),
                                    RatMul(W10(dj, di, pd), v10)),
                             RatAdd(RatMul(W01(dj, di, pd), v01),
                                    RatMul(W11(dj, di, pd), v11)))

\* every method other than "nearest" takes the bilinear branch
_sample_raster_at_points(band, h, w, transform, xs, ys, den, meth) ==
    [k \in 1..Len(xs) |->
        LET cn == ColNum(transform, xs[k], den)
            rn == RowNum(transform, ys[k], den)
            pd == PixDen(transform, den)
        IN  IF meth = "nearest"
            THEN SampleNearest(band, h, w, rn, cn, pd)
            ELSE SampleBilinear(band, h, w, rn, cn, pd)]

----------------------------------------------------------------------------
(* The request and the tile folder *)

None == <<>>
Some(v) == <<v>>

\* start_file = [x / 1000 ...]: edge of a tile of the kilometre grid, metres
TileEdge == 1000
\* dgm1 rasters: one metre per pixel
PixelSize == 1
\* N = max(2, int(num_samples or 200))
DefaultNumSamples == 200
\* the no-data sentinel the tiles declare (ds.nodata)
NoDataValue == -9999

\* The query points, lon/lat in EPSG:4326, named; Transform gives their image
\* in EPSG:25832 (metres), as pyproj computes it.
Points == {"A", "B", "C", "D", "E"}

Transform(p) ==
    CASE p = "A" -> <<200, 300>>
      [] p = "B" -> <<1400, 300>>
      [] p = "C" -> <<200, 1900>>
      [] p = "D" -> <<1400, 1900>>
      [] p = "E" -> <<700, 300>>

\* the tiles the folder may hold
Tiles == (0..1) \X (0..1)

Statuses == {"ok", "missing", "corrupt"}

\* segments whose planar length is a whole number of metres
SegmentLength2(p, q) ==
    LET a == Transform(p)
        b == Transform(q)
    IN  (b[1] - a[1]) * (b[1] - a[1]) + (b[2] - a[2]) * (b[2] - a[2])

\* ds.transform of the tile dgm1_32_<tx>_<ty>: origin at its north-west corner
TileTransform(t) ==
    [ox |-> t[1] * TileEdge, oy |-> (t[2] + 1) * TileEdge, px |-> PixelSize]

TileSize == TileEdge \div PixelSize

\* the terrain of a tile is flat
TileElevation(t) == 100 + 10 * t[1] + 20 * t[2]

\* the tiles of the northern row have cells without data
TileHasNoData(t) == t[2] = 1

\* ds.read(1): there, columns 300..449 hold the no-data sentinel
TileRaw(t, i, j) ==
    IF TileHasNoData(t) /\ j >= 300 /\ j < 450 THEN NoDataValue
    ELSE TileElevation(t)

\* ds.read_masks(1) > 0: there, columns 450..599 are masked out
TileMask(t, i, j) == ~(TileHasNoData(t) /\ j >= 450 /\ j < 600)

\* band = np.where(band == nodata, nan, band); band = np.where(mask, band, nan)
TileBand(t) ==
    [p \in (0..(TileSize - 1)) \X (0..(TileSize - 1)) |->
        IF TileRaw(t, p[1], p[2]) = NoDataValue THEN NaN
        ELSE IF ~TileMask(t, p[1], p[2]) THEN NaN
        ELSE Float(TileRaw(t, p[1], p[2]))]

\* int(tiff[0]), int(tiff[1]) of an entry of tiffs_to_check; entries are kept
\* in metres, i.e. as numerators over TileEdge
TileOf(tiff) == <<Trunc(tiff[1], TileEdge), Trunc(tiff[2], TileEdge)>>

StatusOf(t) == IF t \in DOMAIN tile_status THEN tile_status[t] ELSE "missing"

----------------------------------------------------------------------------
(* _samples_from_spacing, for a projected raster CRS *)

_samples_from_spacing(p0, p1, spacing) ==
    LET length == hypot(p1[1] - p0[1], p1[2] - p0[2])
    IN  IF length <= 0 THEN 2
        ELSE Max(2, (length \div spacing) + 1)

SampleCountDefault2(p0, p1) ==
    IF spacing_m # None /\ spacing_m[1] > 0
    THEN _samples_from_spacing(p0, p1, spacing_m[1])
    ELSE Max(2, IF num_samples = None THEN 2 ELSE num_samples[1])

\* lines 52-55: N from spacing_m, else from num_samples or 200
SampleCount(p0, p1) ==
    IF spacing_m # None /\ spacing_m[1] > 0
    THEN _samples_from_spacing(p0, p1, spacing_m[1])
    ELSE Max(2, IF num_samples = None THEN DefaultNumSamples ELSE num_samples[1])

\* t = np.linspace(0, 1, N); xs = x0 + (x1 - x0) * t, numerators over N - 1
Linspace(a, b, N) == [k \in 1..N |-> a * (N - 1) + (b - a) * (k - 1)]

----------------------------------------------------------------------------
(* _compute_cumulative_distances, for a projected raster CRS *)

RECURSIVE CumsumFrom(_, _, _, _)
\* np.cumsum of seg[lo..hi] continuing the running sum acc (halving keeps the
\* evaluation shallow; the sums are those of the left-to-right loop)
CumsumFrom(seg, lo, hi, acc) ==
    IF lo > hi THEN <<>>
    ELSE IF lo = hi THEN <<RatAdd(acc, seg[lo])>>
    ELSE LET mid == (lo + hi) \div 2
             left == CumsumFrom(seg, lo, mid, acc)
         IN  left \o CumsumFrom(seg, mid + 1, hi, left[Len(left)])

_compute_cumulative_distances(xs, ys, den) ==
    LET seg == [k \in 1..(Len(xs) - 1) |->
                   Rat(hypot(xs[k + 1] - xs[k], ys[k + 1] - ys[k]), den)]
    IN  <<Float(0)>> \o CumsumFrom(seg, 1, Len(seg), Float(0))

----------------------------------------------------------------------------
(* get_elevation_profile *)

\* lines 42-86: the body of the with block, for an opened tile
TileResult(t) ==
    LET p0 == Transform(start_xy)
        p1 == Transform(end_xy)
        N == SampleCount(p0, p1)
        xs == Linspace(p0[1], p1[1], N)
        ys == Linspace(p0[2], p1[2], N)
        vals == _sample_raster_at_points(TileBand(t), TileSize, TileSize,
                                         TileTransform(t), xs, ys, N - 1, method)
        dist_m == _compute_cumulative_distances(xs, ys, N - 1)
    IN  [distance_m |-> dist_m, elevation |-> vals]

\* CRS.from_user_input(input_crs) succeeds for these identifiers only
ResolvableCRS == {"EPSG:4326"}

\* lines 34-36: for x in range(...): for y in range(...): append([x, y])
Sweep(ax, bx, ay, by) ==
    LET nx == IF bx >= ax THEN bx - ax + 1 ELSE 0
        ny == IF by >= ay THEN by - ay + 1 ELSE 0
    IN  [k \in 1..(nx * ny) |->
            <<(ax + ((k - 1) \div ny)) * TileEdge, (ay + ((k - 1) % ny)) * TileEdge>>]

\* lines 27-36: tiffs_to_check
TiffsToCheck(s, e) ==
    LET start_file == Transform(s)
        end_file == Transform(e)
    IN  <<start_file, end_file>> \o
        Sweep(Trunc(start_file[1], TileEdge), Trunc(end_file[1], TileEdge),
              Trunc(start_file[2], TileEdge), Trunc(end_file[2], TileEdge))

RECURSIVE ValidPairs(_, _, _)
\* lines 93-95: the pairs lo..hi of one result whose elevation is not NaN
ValidPairs(result, lo, hi) ==
    IF lo > hi THEN <<>>
    ELSE IF lo = hi
    THEN IF ~isnan(result.elevation[lo])
         THEN <<<<result.distance_m[lo], result.elevation[lo]>>>>
         ELSE <<>>
    ELSE LET mid == (lo + hi) \div 2
         IN  ValidPairs(result, lo, mid) \o ValidPairs(result, mid + 1, hi)

AllPairs(result, lo, hi) ==
    [k \in 1..(hi - lo + 1) |->
        <<result.distance_m[lo + k - 1], result.elevation[lo + k - 1]>>]

\* lines 93-95, for one result
ResultPairs(result, lo, hi) == ValidPairs(result, lo, hi)

RECURSIVE ConcatFrom(_, _, _)
ConcatFrom(results, r, out) ==
    IF r > Len(results) THEN out
    ELSE ConcatFrom(results, r + 1,
                    out \o ResultPairs(results[r], 1, Len(results[r].distance_m)))

\* lines 91-96: concat_result
ConcatResult(results) == ConcatFrom(results, 1, <<>>)

request_vars == <<start_xy, end_xy, input_crs, spacing_m, num_samples, method,
                  tile_status>>

Init ==
    /\ start_xy \in Points
    /\ end_xy \in Points
    /\ IsSquare(SegmentLength2(start_xy, end_xy))
    /\ input_crs \in ResolvableCRS \cup {"EPSG:0"}
    /\ spacing_m \in {None, Some(0), Some(100)}
    /\ num_samples \in {None} \cup {Some(n) : n \in 1..MaxNumSamples}
    /\ method \in {"nearest", "bilinear", "cubic"}
    /\ tile_status \in [Tiles -> Statuses]
    /\ \A t \in Tiles : tile_status[t] = "corrupt" => t = <<0, 0>>
    /\ pc = "validate"
    /\ tiffs_to_check = <<>>
    /\ idx = 0
    /\ results_array = <<>>
    /\ concat_result = <<>>
    /\ raised = "none"
    /\ opened = <<>>
    /\ s_pc = "idle" /\ s_band = <<>> /\ s_h = 0 /\ s_w = 0
    /\ s_xs = <<>> /\ s_ys = <<>> /\ s_method = "nearest" /\ s_vals = <<>>

BadNumSamples == num_samples # None /\ num_samples[1] < 2

BadMethod == method \notin {"nearest", "bilinear"}

\* lines 20-21
RaiseNumSamples ==
    /\ pc = "validate"
    /\ BadNumSamples
    /\ raised' = "ValueError: num_samples must be >= 2"
    /\ pc' = "error"
    /\ UNCHANGED <<request_vars, tiffs_to_check, idx, results_array,
                   concat_result, opened, sampler_vars>>

MethodCheckSkipped == FALSE

\* line 22: the condition of the method check
MethodCheck == BadMethod

\* lines 22-23
RaiseMethod ==
    /\ pc = "validate"
    /\ ~BadNumSamples
    /\ MethodCheck
    /\ raised' = "ValueError: method must be 'nearest' or 'bilinear'"
    /\ pc' = "error"
    /\ UNCHANGED <<request_vars, tiffs_to_check, idx, results_array,
                   concat_result, opened, sampler_vars>>

\* lines 25-36
LocateTiles ==
    /\ pc = "validate"
    /\ ~BadNumSamples
    /\ ~MethodCheck
    /\ tiffs_to_check' = TiffsToCheck(start_xy, end_xy)
    /\ results_array' = <<>>
    /\ idx' = 1
    /\ pc' = "loop"
    /\ UNCHANGED <<request_vars, concat_result, raised, opened, sampler_vars>>

InLoop == pc = "loop" /\ idx <= Len(tiffs_to_check)

CurrentTile == TileOf(tiffs_to_check[idx])

ExceptReraise ==
    /\ raised' = "Exception"
    /\ pc' = "error"
    /\ UNCHANGED <<idx, results_array>>

\* lines 88-89: except Exception: print, and go on with the next tile
ExceptClause ==
    /\ idx' = idx + 1
    /\ UNCHANGED <<pc, raised, results_array>>

\* lines 40-41: rasterio.open raises, the tile file is missing
OpenFails ==
    /\ InLoop
    /\ StatusOf(CurrentTile) = "missing"
    /\ opened' = Append(opened, CurrentTile)
    /\ ExceptClause
    /\ UNCHANGED <<request_vars, tiffs_to_check, concat_result, sampler_vars>>

\* line 44: CRS.from_user_input(input_crs) raises inside the try block
CrsFails ==
    /\ InLoop
    /\ StatusOf(CurrentTile) # "missing"
    /\ input_crs \notin ResolvableCRS
    /\ opened' = Append(opened, CurrentTile)
    /\ ExceptClause
    /\ UNCHANGED <<request_vars, tiffs_to_check, concat_result, sampler_vars>>

\* lines 63-64: ds.read raises, the tile file cannot be decoded
ReadFails ==
    /\ InLoop
    /\ StatusOf(CurrentTile) = "corrupt"
    /\ input_crs \in ResolvableCRS
    /\ opened' = Append(opened, CurrentTile)
    /\ ExceptClause
    /\ UNCHANGED <<request_vars, tiffs_to_check, concat_result, sampler_vars>>

\* lines 40-87: the tile is opened, sampled and its result appended
TileSampled ==
    /\ InLoop
    /\ StatusOf(CurrentTile) = "ok"
    /\ input_crs \in ResolvableCRS
    /\ opened' = Append(opened, CurrentTile)
    /\ results_array' = Append(results_array, TileResult(CurrentTile))
    /\ idx' = idx + 1
    /\ UNCHANGED <<request_vars, pc, tiffs_to_check, concat_result, raised,
                   sampler_vars>>

\* lines 91-96, after the last tile
Concat ==
    /\ pc = "loop"
    /\ idx > Len(tiffs_to_check)
    /\ concat_result' = ConcatResult(results_array)
    /\ pc' = "done"
    /\ UNCHANGED <<request_vars, tiffs_to_check, idx, results_array, raised,
                   opened, sampler_vars>>

Next ==
    \/ RaiseNumSamples
    \/ RaiseMethod
    \/ LocateTiles
    \/ OpenFails
    \/ CrsFails
    \/ ReadFails
    \/ TileSampled
    \/ Concat

Spec == Init /\ [][Next]_vars

----------------------------------------------------------------------------
(* _sample_raster_at_points on small rasters *)

\* the valid cells of a small raster hold pairwise different elevations
CellValue(p) == Float(10 * (p[1] + 1) + p[2])

\* the rasters of h rows and w columns: any set of cells may be without data
Bands(h, w) ==
    LET cells == (0..(h - 1)) \X (0..(w - 1))
    IN  {[p \in cells |-> IF p \in holes THEN NaN ELSE CellValue(p)] :
            holes \in SUBSET cells}

SamplerTransform == [ox |-> 3, oy |-> 7, px |-> 1]

\* pixel coordinates -1 .. n + 1 (exclusive) in steps of 1/SubPixel
PixelSteps(n) == [k \in 1..((n + 2) * SubPixel) |-> k - 1 - SubPixel]

SamplerInit ==
    /\ s_pc = "call"
    /\ s_h \in 1..MaxRasterH
    /\ s_w \in 1..MaxRasterW
    /\ s_band \in Bands(s_h, s_w)
    /\ s_method \in {"nearest", "bilinear"}
    /\ s_xs = [k \in 1..((s_w + 2) * SubPixel) |->
                  SamplerTransform.ox * SubPixel + PixelSteps(s_w)[k]]
    /\ \E m \in Range(PixelSteps(s_h)) :
          s_ys = [k \in 1..((s_w + 2) * SubPixel) |->
                     SamplerTransform.oy * SubPixel - m]
    /\ s_vals = <<>>
    /\ start_xy = "A" /\ end_xy = "A" /\ input_crs = "EPSG:4326"
    /\ spacing_m = None /\ num_samples = None /\ method = "nearest"
    /\ tile_status = [t \in Tiles |-> "missing"]
    /\ pc = "idle" /\ tiffs_to_check = <<>> /\ idx = 0 /\ results_array = <<>>
    /\ concat_result = <<>> /\ raised = "none" /\ opened = <<>>

SamplerCall ==
    /\ s_pc = "call"
    /\ s_vals' = _sample_raster_at_points(s_band, s_h, s_w, SamplerTransform,
                                          s_xs, s_ys, SubPixel, s_method)
    /\ s_pc' = "done"
    /\ UNCHANGED <<s_band, s_h, s_w, s_xs, s_ys, s_method, profile_vars>>

SamplerNext == SamplerCall

SamplerSpec == SamplerInit /\ [][SamplerNext]_vars

----------------------------------------------------------------------------
(* Properties of get_elevation_profile *)

RatLess(a, b) == a[1] * b[2] < b[1] * a[2]

Min(a, b) == IF a <= b THEN a ELSE b

\* the positions of tiffs_to_check whose tile opens and decodes
OkPositions ==
    SelectSeq([k \in 1..Len(tiffs_to_check) |-> k],
              LAMBDA k : StatusOf(TileOf(tiffs_to_check[k])) = "ok")

PairsOf(result) ==
    [i \in 1..Len(result.distance_m) |-> <<result.distance_m[i], result.elevation[i]>>]

HasElevation(pair) == ~isnan(pair[2])

RECURSIVE Flatten(_)
Flatten(seqs) == IF seqs = <<>> THEN <<>> ELSE Head(seqs) \o Flatten(Tail(seqs))

UnusableSpacing == spacing_m = None \/ spacing_m[1] <= 0

\* C1: whatever tiles fail to open or to decode, no exception leaves the tile
\* loop and one of the outcomes of the loop body applies to every tile; with a resolvable input CRS every tile that opens and decodes has its
\* result in results_array, in order, and its valid samples in the returned
\* list; when no tile opens the returned list is empty.
C1_TileFailuresAbsorbed ==
    /\ idx >= 1 => raised = "none" /\ pc \in {"loop", "done"}
    /\ InLoop => \/ StatusOf(CurrentTile) = "missing"
                 \/ input_crs \notin ResolvableCRS
                 \/ StatusOf(CurrentTile) \in {"corrupt", "ok"}
    /\ (pc = "done" /\ input_crs \in ResolvableCRS) =>
          /\ Len(results_array) = Len(OkPositions)
          /\ \A m \in 1..Len(results_array) :
                LET t == TileOf(tiffs_to_check[OkPositions[m]])
                    r == results_array[m]
                IN  /\ Len(r.distance_m) >= 2
                    /\ Len(r.elevation) = Len(r.distance_m)
                    /\ \A i \in 1..Len(r.elevation) :
                          ~isnan(r.elevation[i]) =>
                             /\ r.elevation[i] = Float(TileElevation(t))
                             /\ <<r.distance_m[i], r.elevation[i]>> \in Range(concat_result)
    /\ (pc = "done" /\ \A k \in 1..Len(tiffs_to_check) :
                          StatusOf(TileOf(tiffs_to_check[k])) = "missing") =>
          concat_result = <<>>

C1_Witness ==
    /\ pc = "done"
    /\ \E k \in 1..Len(tiffs_to_check) : StatusOf(TileOf(tiffs_to_check[k])) = "missing"
    /\ \E k \in 1..Len(tiffs_to_check) : StatusOf(TileOf(tiffs_to_check[k])) = "corrupt"
    /\ \E k \in 1..Len(tiffs_to_check) : StatusOf(TileOf(tiffs_to_check[k])) = "ok"
    /\ concat_result # <<>>

\* C2: a supplied num_samples < 2 or a method other than 'nearest' and
\* 'bilinear' ends the call with an error before any tile was located or
\* opened, whatever the other arguments and the tile folder are.
C2_ValidationBeforeTileIO ==
    ((BadNumSamples \/ BadMethod) /\ pc # "validate") =>
        /\ pc = "error"
        /\ raised # "none"
        /\ opened = <<>>
        /\ tiffs_to_check = <<>>
        /\ results_array = <<>>

C2_Witness ==
    /\ pc = "error"
    /\ BadMethod
    /\ ~BadNumSamples
    /\ input_crs \in ResolvableCRS
    /\ \A t \in Tiles : tile_status[t] = "ok"

\* C3: an input CRS that cannot be resolved is an error of the request: once a
\* tile was opened with such a CRS the call never returns a result.
C3_InvalidCrsPropagates ==
    (input_crs \notin ResolvableCRS
       /\ \E k \in 1..Len(opened) : StatusOf(opened[k]) # "missing") =>
        pc # "done"

\* C4: the candidate tiles include every tile of the rectangle spanned by the
\* start tile and the end tile, whatever the orientation of the segment.
C4_CandidatesCoverRectangle ==
    pc \in {"loop", "done"} =>
        LET s == TileOf(Transform(start_xy))
            e == TileOf(Transform(end_xy))
        IN  \A x \in Min(s[1], e[1])..Max(s[1], e[1]) :
            \A y \in Min(s[2], e[2])..Max(s[2], e[2]) :
                \E k \in 1..Len(tiffs_to_check) : TileOf(tiffs_to_check[k]) = <<x, y>>

\* C5: no tile is opened more than once in a request.
C5_TilesOpenedOnce ==
    \A i, j \in 1..Len(opened) : i # j => opened[i] # opened[j]

\* C6: a segment of length L > 0 inside one available tile without no-data
\* cells, sampled with spacing S, returns floor(L/S)+1 samples; the 500 m
\* segment A-E with S = 100 returns elevation 100 at 0, 100, ..., 500 m.
C6_SingleTileProfile ==
    LET t == TileOf(Transform(start_xy))
        L == hypot(Transform(end_xy)[1] - Transform(start_xy)[1],
                   Transform(end_xy)[2] - Transform(start_xy)[2])
    IN  (/\ pc = "done"
         /\ input_crs \in ResolvableCRS
         /\ spacing_m # None /\ spacing_m[1] > 0
         /\ TileOf(Transform(end_xy)) = t
         /\ StatusOf(t) = "ok"
         /\ ~TileHasNoData(t)
         /\ L > 0) =>
            /\ Len(concat_result) = (L \div spacing_m[1]) + 1
            /\ (start_xy = "A" /\ end_xy = "E" /\ spacing_m = Some(100)) =>
                  concat_result = [k \in 1..6 |-> <<Float(100 * (k - 1)), Float(100)>>]

\* C7: the returned list is the concatenation, in the order the tiles were
\* processed, of the (distance, elevation) pairs of each result, in sample
\* order, without exactly the pairs whose elevation is NaN; the results are
\* those of the tiles that opened, in the order of tiffs_to_check.
C7_ConcatenationOfValidPairs ==
    pc = "done" =>
        /\ concat_result =
              Flatten([m \in 1..Len(results_array) |->
                          SelectSeq(PairsOf(results_array[m]), HasElevation)])
        /\ \A k \in 1..Len(concat_result) : ~isnan(concat_result[k][2])
        /\ Len(results_array) <= Len(OkPositions)
        /\ \A m \in 1..Len(results_array) :
              \A i \in 1..Len(results_array[m].elevation) :
                 ~isnan(results_array[m].elevation[i]) =>
                    results_array[m].elevation[i] =
                       Float(TileElevation(TileOf(tiffs_to_check[OkPositions[m]])))

\* a returned list with a dropped no-data sample and a distance that decreases
\* from one pair to the next
C7_Witness ==
    /\ pc = "done"
    /\ \E m \in 1..Len(results_array) :
          \E i \in 1..Len(results_array[m].elevation) : isnan(results_array[m].elevation[i])
    /\ \E k \in 1..(Len(concat_result) - 1) :
          RatLess(concat_result[k + 1][1], concat_result[k][1])

----------------------------------------------------------------------------
(* Properties of _sample_raster_at_points *)

\* fractional pixel coordinates of query point k, numerators over SamplerDen
SamplerDen == PixDen(SamplerTransform, SubPixel)
ColOf(k) == ColNum(SamplerTransform, s_xs[k], SubPixel)
RowOf(k) == RowNum(SamplerTransform, s_ys[k], SubPixel)

\* (row, col) outside [0, height) x [0, width)
OutsideRaster(k) ==
    \/ RowOf(k) < 0 \/ RowOf(k) >= s_h * SamplerDen
    \/ ColOf(k) < 0 \/ ColOf(k) >= s_w * SamplerDen

\* (row, col) outside [-1/2, height - 1/2] x [-1/2, width - 1/2]
OutsideHalfPixelMargin(k) ==
    \/ 2 * RowOf(k) < -SamplerDen \/ 2 * RowOf(k) > (2 * s_h - 1) * SamplerDen
    \/ 2 * ColOf(k) < -SamplerDen \/ 2 * ColOf(k) > (2 * s_w - 1) * SamplerDen

\* query point k lies exactly at the centre of a cell of the raster
AtCellCenter(k) ==
    /\ ~OutsideRaster(k)
    /\ RowOf(k) % SamplerDen = 0
    /\ ColOf(k) % SamplerDen = 0

CenterRow(k) == RowOf(k) \div SamplerDen
CenterCol(k) == ColOf(k) \div SamplerDen

\* the cell and its neighbours to the right and below are in the raster and
\* hold data
FourValidCells(k) ==
    /\ CenterRow(k) + 1 < s_h
    /\ CenterCol(k) + 1 < s_w
    /\ \A di, dj \in {0, 1} : ~isnan(s_band[<<CenterRow(k) + di, CenterCol(k) + dj>>])

NearestVals ==
    _sample_raster_at_points(s_band, s_h, s_w, SamplerTransform,
                             s_xs, s_ys, SubPixel, "nearest")

\* C8 as stated: with either method every query point whose fractional pixel
\* coordinates lie outside [0, height) x [0, width) samples NaN.
C8_OutsideIsNaN ==
    s_pc = "done" =>
        \A k \in 1..Len(s_vals) : OutsideRaster(k) => isnan(s_vals[k])

\* C8 amended: with 'bilinear' every query point outside [0, height) x
\* [0, width) samples NaN; with 'nearest' every query point outside
\* [-1/2, height - 1/2] x [-1/2, width - 1/2] samples NaN.
C8_OutsideIsNaNByMethod ==
    s_pc = "done" =>
        \A k \in 1..Len(s_vals) :
            /\ (s_method = "bilinear" /\ OutsideRaster(k)) => isnan(s_vals[k])
            /\ (s_method = "nearest" /\ OutsideHalfPixelMargin(k)) => isnan(s_vals[k])

\* a nearest call with a point left of column 0 that still samples a cell,
\* and a point beyond the half-pixel margin
C8_Witness ==
    /\ s_pc = "done"
    /\ s_method = "nearest"
    /\ \E k \in 1..Len(s_vals) : OutsideRaster(k) /\ ~isnan(s_vals[k])
    /\ \E k \in 1..Len(s_vals) : OutsideHalfPixelMargin(k) /\ isnan(s_vals[k])

\* C9 as stated: at every cell centre, those of the last row and column and
\* those next to no-data cells included, 'bilinear' samples what 'nearest'
\* samples.
C9_BilinearEqualsNearestAtCenters ==
    (s_pc = "done" /\ s_method = "bilinear") =>
        \A k \in 1..Len(s_vals) : AtCellCenter(k) => s_vals[k] = NearestVals[k]

\* C9 amended: at a cell centre (i, j) with i + 1 < height, j + 1 < width and
\* data in the four cells (i, j), (i, j+1), (i+1, j), (i+1, j+1), 'bilinear'
\* samples what 'nearest' samples, the value of cell (i, j); at every other
\* cell centre 'bilinear' samples NaN.
C9_BilinearAtCenters ==
    (s_pc = "done" /\ s_method = "bilinear") =>
        \A k \in 1..Len(s_vals) :
            AtCellCenter(k) =>
                IF FourValidCells(k)
                THEN /\ s_vals[k] = NearestVals[k]
                     /\ s_vals[k] = s_band[<<CenterRow(k), CenterCol(k)>>]
                ELSE isnan(s_vals[k])

\* a bilinear call that agrees with nearest at one centre and samples NaN at
\* a centre of the last column whose cell holds data
C9_Witness ==
    /\ s_pc = "done"
    /\ s_method = "bilinear"
    /\ \E k \in 1..Len(s_vals) :
          AtCellCenter(k) /\ FourValidCells(k) /\ ~isnan(s_vals[k])
    /\ \E k \in 1..Len(s_vals) :
          /\ AtCellCenter(k)
          /\ CenterCol(k) = s_w - 1
          /\ ~isnan(NearestVals[k])
          /\ isnan(s_vals[k])

====
